---- MODULE Spec2Model ----
(***************************************************************************)
(* Model of the two scripts of the repository:                             *)
(*   src/draw_chart.py          the trade-chart renderer                   *)
(*   src/youtube_transcript.py  the transcript fetcher                     *)
(*                                                                         *)
(* Spec            the chart script: ChartGenerator construction, ticker   *)
(*                 resolution and the generate_trade_chart pipeline, one   *)
(*                 action per pipeline stage.                              *)
(* SpecMarkers     TechnicalIndicator.create_trade_markers on concrete     *)
(*                 date indexes.                                           *)
(* SpecEma         TechnicalIndicator.calculate_ema in exact rational      *)
(*                 arithmetic.                                             *)
(* SpecUrl         extract_video_id_urllib on URLs built from lexical      *)
(*                 atoms.                                                  *)
(* SpecTranscript  main() of the transcript fetcher.                       *)
(*                                                                         *)
(* The third-party libraries (pykrx, mplfinance, matplotlib,               *)
(* youtube_transcript_api) are opaque collaborators: a call into them      *)
(* either returns or raises, chosen nondeterministically.                  *)
(***************************************************************************)
EXTENDS Integers, Sequences, FiniteSets, TLC

VARIABLES
    \* ---- chart script: provider (pykrx) ----
    market,          \* the list stock.get_market_ticker_list() returns
    tickerName,      \* stock.get_market_ticker_name, ticker -> display name
    \* ---- chart script: StockDataManager ----
    ticker_cache,    \* self._ticker_cache, name -> ticker
    \* ---- chart script: observation of the provider traffic ----
    listRequests,    \* calls of stock.get_market_ticker_list so far
    ohlcvRequests,   \* calls of stock.get_market_ohlcv so far
    \* ---- chart script: control ----
    pc,              \* position of the script
    calls,           \* get_ticker_by_name / generate_trade_chart calls so far
    \* ---- chart script: the running call's locals ----
    stock_name, buy_date_str, sell_date_str,
    lookup,          \* last get_ticker_by_name: [name, resp, ret]
    ticker, today,
    fetched,         \* the OHLCV request of the running call and its answer
    df, ema, markers, style, filename,
    stages,          \* the stages the running call completed, in order
    result,          \* what generate_trade_chart returned
    errorLog,        \* the logger.error lines of the running call
    \* ---- chart script: effects ----
    saved,           \* image files written: [display, ticker, buy, sell, name]
    mainLog,         \* main's closing log line
    \* ---- pure functions and the transcript script ----
    mk,              \* create_trade_markers: inputs and outputs
    em,              \* calculate_ema: inputs and outputs
    url,             \* extract_video_id_urllib: input and output
    tr               \* transcript main(): position, transcript, file, report

chartVars == <<market, tickerName, ticker_cache, listRequests, ohlcvRequests,
               pc, calls, stock_name, buy_date_str, sell_date_str, lookup,
               ticker, today, fetched, df, ema, markers, style, filename,
               stages, result, errorLog, saved, mainLog>>
vars == <<chartVars, mk, em, url, tr>>

None == "None"
Idle == [phase |-> "off"]

Range(s) == {s[i] : i \in DOMAIN s}

(***************************************************************************)
(* Bounds                                                                  *)
(***************************************************************************)
MaxCalls == 2

(***************************************************************************)
(* The provider's universe                                                 *)
(***************************************************************************)
Tickers == {"005930", "000660"}
\* A display name may coincide with another security's ticker string.
Names == {"Samsung", "Hynix", "000660"}
NameInputs == Names \cup Tickers \cup {"Unknown"}
\* (buy_date_str, sell_date_str) pairs; a string not in %Y%m%d form fails to parse
TradeDateInputs ==
    {<<"20250219", "20250625">>, <<"20250625", "20250625">>,
     <<"2025-02-19", "20250625">>, <<"20250219", "2025-06-25">>}
Todays == {20000, 20001}

RECURSIVE SeqsUpTo(_, _)
SeqsUpTo(S, n) ==
    IF n = 0 THEN {<<>>}
    ELSE LET shorter == SeqsUpTo(S, n - 1)
         IN  shorter \cup {Append(s, x) : s \in shorter, x \in S}
DistinctSeqs(S) ==
    {s \in SeqsUpTo(S, Cardinality(S)) :
        \A i, j \in DOMAIN s : i # j => s[i] # s[j]}

(***************************************************************************)
(* ChartConfig                                                             *)
(***************************************************************************)
CHART_PERIOD_DAYS == 180

(***************************************************************************)
(* StockDataManager                                                        *)
(***************************************************************************)
EmptyDict == [n \in {} |-> None]
DictSet(d, k, v) == [n \in DOMAIN d \cup {k} |-> IF n = k THEN v ELSE d[n]]
DictGet(d, k) == IF k \in DOMAIN d THEN d[k] ELSE None
\* Python truthiness of an Optional[str]
Truthy(v) == v # None /\ v # ""

\* { get_market_ticker_name(t): t for t in ticker_list }: a later ticker of
\* the list overwrites an earlier one of the same name.
RECURSIVE DictComprehension(_, _, _)
DictComprehension(list, i, acc) ==
    IF i > Len(list) THEN acc
    ELSE DictComprehension(list, i + 1,
                           DictSet(acc, tickerName[list[i]], list[i]))

\* _load_ticker_cache: the cache after the load; a provider failure leaves
\* the cache as __init__ set it.
LoadTickerCache(ok) ==
    IF ok THEN DictComprehension(market, 1, EmptyDict) ELSE EmptyDict

\* The direct-ticker check of get_ticker_by_name on a cache miss.
DirectTicker(name, resp) ==
    IF resp = "ok" /\ name \in Range(market) THEN name ELSE None

\* A variant that tries the direct-ticker check before the cached names.
GetTickerByNameDirectFirst(name, resp) ==
    LET direct == DirectTicker(name, resp)
    IN  IF Truthy(direct)
        THEN [ret |-> direct, asked |-> TRUE]
        ELSE [ret |-> DictGet(ticker_cache, name), asked |-> TRUE]

\* get_ticker_by_name(name); resp is the provider's answer to the ticker-list
\* request the function makes on a cache miss ("ok" or "fail").
\* asked: whether that request was made.
GetTickerByName(name, resp) ==
    LET hit == DictGet(ticker_cache, name)
    IN  IF Truthy(hit)
        THEN [ret |-> hit, asked |-> FALSE]
        ELSE [ret |-> DirectTicker(name, resp), asked |-> TRUE]

\* get_stock_data: the provider's labels renamed to the canonical ones.
\* The provider's Korean column labels, romanised.
ProviderColumns == {"siga", "goga", "jeoga", "jongga", "georaeryang"}
ColumnMapping(c) ==
    CASE c = "siga" -> "Open"
      [] c = "goga" -> "High"
      [] c = "jeoga" -> "Low"
      [] c = "jongga" -> "Close"
      [] c = "georaeryang" -> "Volume"
      [] OTHER -> c
\* A variant without the df.empty check.
GetStockDataKeepEmpty(resp) ==
    IF resp \in {"rows", "empty"}
    THEN [none |-> FALSE, columns |-> {ColumnMapping(c) : c \in ProviderColumns}]
    ELSE [none |-> TRUE, columns |-> {}]

\* resp: "fail" (the request raised), "empty" or "rows"
GetStockData(resp) ==
    IF resp = "rows"
    THEN [none |-> FALSE, columns |-> {ColumnMapping(c) : c \in ProviderColumns}]
    ELSE [none |-> TRUE, columns |-> {}]

(***************************************************************************)
(* ChartGenerator.generate_trade_chart                                     *)
(***************************************************************************)
\* datetime.strptime(s, '%Y%m%d') on the date strings of TradeDateInputs: the
\* date, or a ValueError for a string that is not eight digits.
Strptime(s) ==
    CASE s = "20250219" -> [ok |-> TRUE, date |-> <<2025, 2, 19>>]
      [] s = "20250625" -> [ok |-> TRUE, date |-> <<2025, 6, 25>>]
      [] OTHER -> [ok |-> FALSE, date |-> <<>>]

\* A variant that names the file after the caller's stock_name.
FileNameFromInput(display, tk, buy, sell) ==
    stock_name \o "(" \o tk \o ")_" \o buy \o "-" \o sell \o "_trade.png"

FileName(display, tk, buy, sell) ==
    display \o "(" \o tk \o ")_" \o buy \o "-" \o sell \o "_trade.png"

\* Variants: no outer except clause (the exception leaves the call), and an
\* except clause that reports success.
ExceptReraise == "raised"
ExceptReturnsTrue == "True"

\* What the outer except clause of generate_trade_chart returns.
ExceptReturn == "False"

NoLookup == [name |-> None, resp |-> None, ret |-> None]
NoDf == [none |-> TRUE, columns |-> {}]
NoFetch == [resp |-> None, start |-> 0, end |-> 0]

ChartInit ==
    /\ market \in DistinctSeqs(Tickers)
    /\ tickerName \in [Tickers -> Names]
    /\ ticker_cache = EmptyDict
    /\ listRequests = 0
    /\ ohlcvRequests = 0
    /\ pc = "start"
    /\ calls = 0
    /\ stock_name = None /\ buy_date_str = None /\ sell_date_str = None
    /\ lookup = NoLookup
    /\ ticker = None /\ today = 0 /\ fetched = NoFetch /\ df = NoDf
    /\ ema = None /\ markers = None /\ style = None /\ filename = None
    /\ stages = <<>>
    /\ result = None
    /\ errorLog = {}
    /\ saved = {}
    /\ mainLog = None

OffInit == mk = Idle /\ em = Idle /\ url = Idle /\ tr = Idle
others == <<mk, em, url, tr>>

locals == <<stock_name, buy_date_str, sell_date_str, lookup, ticker, today,
            fetched, df, ema, markers, style, filename, stages, result, errorLog>>
provider == <<market, tickerName>>

\* ChartGenerator.__init__: StockDataManager.__init__ sets the empty cache and
\* loads it with one ticker-list request, which may fail (the request or a
\* name lookup raises: the cache stays empty). FontManager.setup_korean_font
\* catches its own failures and touches matplotlib's rcParams only.
Construct ==
    /\ pc = "start"
    /\ \E ok \in BOOLEAN : ticker_cache' = LoadTickerCache(ok)
    /\ listRequests' = listRequests + 1
    /\ pc' = "idle"
    /\ UNCHANGED <<provider, ohlcvRequests, calls, locals, saved, mainLog, others>>

\* A direct call of data_manager.get_ticker_by_name(name).
Lookup ==
    /\ pc = "idle"
    /\ calls < MaxCalls
    /\ \E name \in NameInputs, resp \in {"ok", "fail"} :
          LET r == GetTickerByName(name, resp)
          IN  /\ lookup' = [name |-> name,
                            resp |-> IF r.asked THEN resp ELSE None,
                            ret |-> r.ret]
              /\ listRequests' = listRequests + (IF r.asked THEN 1 ELSE 0)
    /\ calls' = calls + 1
    /\ pc' = "looked"
    /\ UNCHANGED <<provider, ticker_cache, ohlcvRequests, stock_name,
                   buy_date_str, sell_date_str, ticker, today, fetched, df, ema,
                   markers, style, filename, stages, result, errorLog, saved,
                   mainLog, others>>

\* main calls generate_trade_chart(stock_name, buy_date_str, ..., sell_date_str, ...)
Call ==
    /\ pc = "idle"
    /\ calls < MaxCalls
    /\ \E n \in NameInputs, d \in TradeDateInputs :
          /\ stock_name' = n
          /\ buy_date_str' = d[1]
          /\ sell_date_str' = d[2]
    /\ calls' = calls + 1
    /\ pc' = "g_lookup"
    /\ UNCHANGED <<provider, ticker_cache, listRequests, ohlcvRequests, lookup,
                   ticker, today, fetched, df, ema, markers, style, filename, stages,
                   result, errorLog, saved, mainLog, others>>

\* A stage raised inside the outer try: the except clause logs and returns.
Raised(stage) ==
    /\ result' = ExceptReturn
    /\ errorLog' = errorLog \cup {"chart:" \o stage}
    /\ pc' = "g_return"

\* 1. ticker = get_ticker_by_name(stock_name); if not ticker: return False
GLookup ==
    /\ pc = "g_lookup"
    /\ \E resp \in {"ok", "fail"} :
          LET r == GetTickerByName(stock_name, resp)
          IN  /\ lookup' = [name |-> stock_name,
                            resp |-> IF r.asked THEN resp ELSE None,
                            ret |-> r.ret]
              /\ listRequests' = listRequests + (IF r.asked THEN 1 ELSE 0)
              /\ ticker' = r.ret
              /\ IF Truthy(r.ret)
                 THEN pc' = "g_dates" /\ result' = result /\ errorLog' = errorLog
                 ELSE /\ pc' = "g_return"
                      /\ result' = "False"
                      /\ errorLog' = errorLog \cup {"lookup"}
    /\ stages' = Append(stages, "lookup")
    /\ UNCHANGED <<provider, ticker_cache, ohlcvRequests, calls, stock_name,
                   buy_date_str, sell_date_str, today, fetched, df, ema, markers,
                   style, filename, saved, mainLog, others>>

\* 2. strptime of both trade dates, then today = datetime.now()
GDates ==
    /\ pc = "g_dates"
    /\ IF Strptime(buy_date_str).ok /\ Strptime(sell_date_str).ok
       THEN /\ today' \in Todays
            /\ stages' = Append(stages, "dates")
            /\ pc' = "g_fetch"
            /\ UNCHANGED <<result, errorLog>>
       ELSE Raised("dates") /\ UNCHANGED <<today, stages>>
    /\ UNCHANGED <<provider, ticker_cache, listRequests, ohlcvRequests, calls,
                   stock_name, buy_date_str, sell_date_str, lookup, ticker, fetched,
                   df, ema, markers, style, filename, saved, mainLog, others>>

\* 3. df = get_stock_data(ticker, today - CHART_PERIOD_DAYS, today);
\*    if df is None: return False
GFetch ==
    /\ pc = "g_fetch"
    /\ \E resp \in {"fail", "empty", "rows"} :
          /\ fetched' = [resp |-> resp, start |-> today - CHART_PERIOD_DAYS,
                         end |-> today]
          /\ df' = GetStockData(resp)
          /\ IF df'.none
             THEN /\ pc' = "g_return"
                  /\ result' = "False"
                  /\ errorLog' = errorLog \cup {"fetch"}
             ELSE pc' = "g_ema" /\ UNCHANGED <<result, errorLog>>
    /\ ohlcvRequests' = ohlcvRequests + 1
    /\ stages' = Append(stages, "fetch")
    /\ UNCHANGED <<provider, ticker_cache, listRequests, calls, stock_name,
                   buy_date_str, sell_date_str, lookup, ticker, today, ema,
                   markers, style, filename, saved, mainLog, others>>

\* 4a. ema_short, ema_long = calculate_ema(df['Close'], EMA_PERIODS); the
\*     helper catches its own failure and returns two empty series.
GEma ==
    /\ pc = "g_ema"
    /\ IF "Close" \in df.columns
       THEN /\ \E ok \in BOOLEAN :
                  /\ ema' = IF ok THEN "series" ELSE "empty"
                  /\ errorLog' = IF ok THEN errorLog
                                 ELSE errorLog \cup {"ema"}
            /\ stages' = Append(stages, "ema")
            /\ pc' = "g_markers"
            /\ result' = result
       ELSE Raised("ema") /\ UNCHANGED <<ema, stages>>
    /\ UNCHANGED <<provider, ticker_cache, listRequests, ohlcvRequests, calls,
                   stock_name, buy_date_str, sell_date_str, lookup, ticker,
                   today, fetched, df, markers, style, filename, saved, mainLog, others>>

\* 4b. buy_markers, sell_markers = create_trade_markers(...); the helper
\*     catches its own failure and returns two empty series.
GMarkers ==
    /\ pc = "g_markers"
    /\ \E ok \in BOOLEAN :
          /\ markers' = IF ok THEN "series" ELSE "empty"
          /\ errorLog' = IF ok THEN errorLog ELSE errorLog \cup {"markers"}
    /\ stages' = Append(stages, "markers")
    /\ pc' = "g_addplots"
    /\ UNCHANGED <<provider, ticker_cache, listRequests, ohlcvRequests, calls,
                   stock_name, buy_date_str, sell_date_str, lookup, ticker,
                   today, fetched, df, ema, style, filename, result, saved, mainLog,
                   others>>

\* 5. the four mpf.make_addplot calls
GAddPlots ==
    /\ pc = "g_addplots"
    /\ \E ok \in BOOLEAN :
          IF ok
          THEN /\ stages' = Append(stages, "addplots")
               /\ pc' = "g_style"
               /\ UNCHANGED <<result, errorLog>>
          ELSE Raised("addplots") /\ UNCHANGED stages
    /\ UNCHANGED <<provider, ticker_cache, listRequests, ohlcvRequests, calls,
                   stock_name, buy_date_str, sell_date_str, lookup, ticker,
                   today, fetched, df, ema, markers, style, filename, saved, mainLog,
                   others>>

\* 6. style = create_custom_style(): the helper catches its own failure and
\*    returns mpf.make_mpf_style(), which may raise in its turn.
GStyle ==
    /\ pc = "g_style"
    /\ \E o \in {"custom", "default", "raise"} :
          IF o = "raise"
          THEN /\ result' = ExceptReturn
               /\ errorLog' = errorLog \cup {"style", "chart:style"}
               /\ pc' = "g_return"
               /\ UNCHANGED <<style, stages>>
          ELSE /\ style' = o
               /\ errorLog' = IF o = "custom" THEN errorLog
                              ELSE errorLog \cup {"style"}
               /\ stages' = Append(stages, "style")
               /\ pc' = "g_name"
               /\ result' = result
    /\ UNCHANGED <<provider, ticker_cache, listRequests, ohlcvRequests, calls,
                   stock_name, buy_date_str, sell_date_str, lookup, ticker,
                   today, fetched, df, ema, markers, filename, saved, mainLog, others>>

\* 7. stock_display_name = get_market_ticker_name(ticker); filename = f"..."
GName ==
    /\ pc = "g_name"
    /\ \E ok \in BOOLEAN :
          IF ok
          THEN /\ filename' = FileName(tickerName[ticker], ticker,
                                       buy_date_str, sell_date_str)
               /\ stages' = Append(stages, "name")
               /\ pc' = "g_plot"
               /\ UNCHANGED <<result, errorLog>>
          ELSE Raised("name") /\ UNCHANGED <<filename, stages>>
    /\ UNCHANGED <<provider, ticker_cache, listRequests, ohlcvRequests, calls,
                   stock_name, buy_date_str, sell_date_str, lookup, ticker,
                   today, fetched, df, ema, markers, style, saved, mainLog, others>>

\* 8.-10. fig, axes = mpf.plot(...); fig.suptitle(...); fig.set_facecolor(...)
GPlot ==
    /\ pc = "g_plot"
    /\ \E ok \in BOOLEAN :
          IF ok
          THEN /\ stages' = Append(stages, "plot")
               /\ pc' = "g_save"
               /\ UNCHANGED <<result, errorLog>>
          ELSE Raised("plot") /\ UNCHANGED stages
    /\ UNCHANGED <<provider, ticker_cache, listRequests, ohlcvRequests, calls,
                   stock_name, buy_date_str, sell_date_str, lookup, ticker,
                   today, fetched, df, ema, markers, style, filename, saved, mainLog,
                   others>>

\* The record of a written image file.
SavedFile ==
    [display |-> tickerName[ticker], ticker |-> ticker, buy |-> buy_date_str,
     sell |-> sell_date_str, name |-> filename]

\* 11. fig.savefig(filename, ...); plt.close(fig); return True
GSave ==
    /\ pc = "g_save"
    /\ \E ok \in BOOLEAN :
          IF ok
          THEN /\ saved' = saved \cup {SavedFile}
               /\ stages' = Append(stages, "save")
               /\ result' = "True"
               /\ pc' = "g_return"
               /\ UNCHANGED errorLog
          ELSE Raised("save") /\ UNCHANGED <<saved, stages>>
    /\ UNCHANGED <<provider, ticker_cache, listRequests, ohlcvRequests, calls,
                   stock_name, buy_date_str, sell_date_str, lookup, ticker,
                   today, fetched, df, ema, markers, style, filename, mainLog, others>>

\* main: if success: log success, else: log failure; an exception out of
\* generate_trade_chart would reach main's own except clause.
MainLog ==
    /\ pc = "g_return"
    /\ mainLog' = CASE result = "True" -> "success"
                    [] result = "False" -> "failure"
                    [] OTHER -> "program_error"
    /\ pc' = "logged"
    /\ UNCHANGED <<provider, ticker_cache, listRequests, ohlcvRequests, calls,
                   locals, saved, others>>

\* The call's frame is gone: the script is ready for the next call.
Discard ==
    /\ pc \in {"looked", "logged"}
    /\ stock_name' = None /\ buy_date_str' = None /\ sell_date_str' = None
    /\ lookup' = NoLookup
    /\ ticker' = None /\ today' = 0 /\ fetched' = NoFetch /\ df' = NoDf
    /\ ema' = None /\ markers' = None /\ style' = None /\ filename' = None
    /\ stages' = <<>>
    /\ result' = None
    /\ errorLog' = {}
    /\ mainLog' = None
    /\ pc' = "idle"
    /\ UNCHANGED <<provider, ticker_cache, listRequests, ohlcvRequests, calls,
                   saved, others>>

Init == ChartInit /\ OffInit
Next ==
    \/ Construct \/ Lookup \/ Call
    \/ GLookup \/ GDates \/ GFetch \/ GEma \/ GMarkers \/ GAddPlots
    \/ GStyle \/ GName \/ GPlot \/ GSave
    \/ MainLog \/ Discard
Spec == Init /\ [][Next]_vars

\* The chart script is not running (the other specifications).
ChartOff ==
    /\ market = <<>>
    /\ tickerName = [t \in Tickers |-> "Samsung"]
    /\ ticker_cache = EmptyDict
    /\ listRequests = 0
    /\ ohlcvRequests = 0
    /\ pc = "off"
    /\ calls = 0
    /\ stock_name = None /\ buy_date_str = None /\ sell_date_str = None
    /\ lookup = NoLookup
    /\ ticker = None /\ today = 0 /\ fetched = NoFetch /\ df = NoDf
    /\ ema = None /\ markers = None /\ style = None /\ filename = None
    /\ stages = <<>>
    /\ result = None
    /\ errorLog = {}
    /\ saved = {}
    /\ mainLog = None

(***************************************************************************)
(* Claims checked under Spec                                               *)
(***************************************************************************)
Returned == pc \in {"g_return", "logged"}
HelperErrors == {"ema", "markers", "style"}
AllStages == <<"lookup", "dates", "fetch", "ema", "markers", "addplots",
               "style", "name", "plot", "save">>

\* C1: get_ticker_by_name returns the cached ticker when the name is a key of
\* the name-to-ticker cache; otherwise the name itself when the provider's
\* ticker list holds it; otherwise None. The cache maps display names of
\* listed tickers to a ticker with that name. A name match wins over the
\* direct-ticker check, and nothing else is ever returned.
C1_TickerResolution ==
    /\ \A n \in DOMAIN ticker_cache :
          /\ ticker_cache[n] \in Range(market)
          /\ tickerName[ticker_cache[n]] = n
    /\ \/ ticker_cache = EmptyDict
       \/ DOMAIN ticker_cache = {tickerName[t] : t \in Range(market)}
    /\ lookup.name # None =>
          IF lookup.name \in DOMAIN ticker_cache
          THEN lookup.ret = ticker_cache[lookup.name]
          ELSE IF lookup.resp = "ok" /\ lookup.name \in Range(market)
               THEN lookup.ret = lookup.name
               ELSE lookup.ret = None

\* A looked-up name that is a cached display name and also a listed ticker
\* resolved to the ticker cached under that name, not to itself.
C1_Witness ==
    /\ lookup.name \in DOMAIN ticker_cache
    /\ lookup.name \in Range(market)
    /\ lookup.ret # lookup.name
    /\ lookup.ret = ticker_cache[lookup.name]

\* C4 (as claimed): whenever generate_trade_chart returns after any stage
\* logged a failure, it returns False.
C4_AnyFailureReturnsFalse ==
    (Returned /\ errorLog # {}) => result = "False"

\* C4 (amended): generate_trade_chart never raises to its caller. A failure
\* of the ticker lookup, the date parsing, the data fetch, the add-plot
\* construction, the display-name lookup, the plot or the save is logged and
\* the call returns False. A failure inside calculate_ema,
\* create_trade_markers or create_custom_style is logged by that helper,
\* which hands back its fallback (empty series, default style), and the
\* pipeline goes on with it.
C4_FailuresCaught ==
    /\ Returned => result \in {"True", "False"}
    /\ mainLog # "program_error"
    /\ (Returned /\ errorLog \ HelperErrors # {}) => result = "False"
    /\ "ema" \in errorLog <=> ema = "empty"
    /\ "markers" \in errorLog <=> markers = "empty"
    /\ (style = "default" => "style" \in errorLog)
    /\ (style = "custom" => "style" \notin errorLog)

\* A failed savefig was caught by the outer except clause and the call
\* returned False.
C4_Witness ==
    /\ pc = "g_return"
    /\ "chart:save" \in errorLog
    /\ result = "False"

\* C5: a ticker that is not found and an OHLCV answer that is empty or failed
\* each end the call at once with False: no OHLCV request after a failed
\* lookup, exactly one request (no retry) for an empty answer, no later
\* stage, no file written, and nothing but main's log line after the return.
C5_Step ==
    /\ (pc = "g_lookup" /\ ~Truthy(ticker')) =>
          /\ pc' = "g_return" /\ result' = "False"
          /\ stages' = <<"lookup">>
          /\ ohlcvRequests' = ohlcvRequests
          /\ saved' = saved
    /\ (pc = "g_fetch" /\ fetched'.resp \in {"fail", "empty"}) =>
          /\ pc' = "g_return" /\ result' = "False"
          /\ stages' = <<"lookup", "dates", "fetch">>
          /\ ohlcvRequests' = ohlcvRequests + 1
          /\ saved' = saved
    /\ pc = "g_return" =>
          /\ pc' = "logged"
          /\ UNCHANGED <<listRequests, ohlcvRequests, saved, result, stages>>
C5_TerminalConditions == [][C5_Step]_vars

\* A call returned False right after an empty OHLCV answer.
C5_Witness ==
    /\ pc = "g_return"
    /\ fetched.resp = "empty"
    /\ result = "False"
    /\ stages = <<"lookup", "dates", "fetch">>

\* C6: every written file is named
\* {display_name}({ticker})_{buy_date}-{sell_date}_trade.png with the display
\* name the provider gives for the resolved ticker and the date strings as
\* supplied; two files written for the same four values have the same name.
C6_FileNameFormat ==
    /\ \A f \in saved :
          /\ f.display = tickerName[f.ticker]
          /\ f.name = f.display \o "(" \o f.ticker \o ")_" \o f.buy \o "-"
                      \o f.sell \o "_trade.png"
    /\ \A f, g \in saved :
          (f.display = g.display /\ f.ticker = g.ticker /\ f.buy = g.buy
           /\ f.sell = g.sell) => f.name = g.name
    /\ (pc = "g_return" /\ result = "True") =>
          /\ SavedFile \in saved
          /\ SavedFile.ticker = lookup.ret
          /\ SavedFile.buy = buy_date_str /\ SavedFile.sell = sell_date_str

\* A call given a ticker string as stock_name wrote a file named after the
\* provider's display name.
C6_Witness ==
    /\ pc = "g_return" /\ result = "True"
    /\ stock_name = ticker
    /\ tickerName[ticker] # stock_name
    /\ filename = "Samsung(005930)_20250219-20250625_trade.png"

\* C9 (as claimed): once the ChartGenerator is constructed, the provider's
\* ticker list has been requested exactly once, whatever calls followed.
C9_TickerListFetchedOnce == pc # "start" => listRequests = 1

MaxDate == 4
MaxPrice == 2
\* float('nan'): an entry that holds no price (prices are positive)
NaN == 0 - 1
Dates == 1..MaxDate
\* The date index of an OHLCV frame: trading days in increasing order.
RECURSIVE SortedSeq(_)
SortedSeq(S) ==
    IF S = {} THEN <<>>
    ELSE LET m == CHOOSE x \in S : \A y \in S : x <= y
         IN  <<m>> \o SortedSeq(S \ {m})
DateIndexes == {SortedSeq(S) : S \in SUBSET Dates}

\* A variant that falls back to the nearest earlier trading day.
MarkerSeriesNearest(index, date, price) ==
    LET earlier == {d \in Range(index) : d <= date}
        at == IF earlier = {} THEN date
              ELSE CHOOSE d \in earlier : \A e \in earlier : e <= d
    IN  [i \in DOMAIN index |-> IF index[i] = at THEN price ELSE NaN]

\* pd.Series(nan, index=df.index); if date in df.index: series.loc[date] = price
MarkerSeries(index, date, price) ==
    LET blank == [i \in DOMAIN index |-> NaN]
    IN  IF date \in Range(index)
        THEN [i \in DOMAIN index |-> IF index[i] = date THEN price ELSE blank[i]]
        ELSE blank

\* The except clause is not modelled here: with a date index, two dates and
\* two numbers no statement of the try block raises.
CreateTradeMarkers(index, buy_date, buy_price, sell_date, sell_price) ==
    [buy |-> MarkerSeries(index, buy_date, buy_price),
     sell |-> MarkerSeries(index, sell_date, sell_price)]

MarkersInit ==
    /\ mk \in [phase : {"in"}, index : DateIndexes,
               buy_date : 0..MaxDate, buy_price : 1..MaxPrice,
               sell_date : 0..MaxDate, sell_price : 1..MaxPrice,
               buy : {<<>>}, sell : {<<>>}]
    /\ em = Idle /\ url = Idle /\ tr = Idle
    /\ ChartOff

MarkersApply ==
    /\ mk.phase = "in"
    /\ LET r == CreateTradeMarkers(mk.index, mk.buy_date, mk.buy_price,
                                   mk.sell_date, mk.sell_price)
       IN  mk' = [mk EXCEPT !.phase = "out", !.buy = r.buy, !.sell = r.sell]
    /\ UNCHANGED <<chartVars, em, url, tr>>

SpecMarkers == MarkersInit /\ [][MarkersApply]_vars

NonEmptyAt(series) == {i \in DOMAIN series : series[i] # NaN}

\* C2: each marker series is aligned to the OHLCV index; for a date of the
\* index it holds the given price at that date and nothing anywhere else; for
\* a date outside the index it is empty throughout; the buy series depends on
\* the buy inputs alone and the sell series on the sell inputs alone.
C2_MarkerPlacement ==
    mk.phase = "out" =>
       /\ DOMAIN mk.buy = DOMAIN mk.index
       /\ DOMAIN mk.sell = DOMAIN mk.index
       /\ IF \E i \in DOMAIN mk.index : mk.index[i] = mk.buy_date
          THEN \E i \in DOMAIN mk.index :
                  /\ NonEmptyAt(mk.buy) = {i}
                  /\ mk.index[i] = mk.buy_date
                  /\ mk.buy[i] = mk.buy_price
          ELSE NonEmptyAt(mk.buy) = {}
       /\ IF \E i \in DOMAIN mk.index : mk.index[i] = mk.sell_date
          THEN \E i \in DOMAIN mk.index :
                  /\ NonEmptyAt(mk.sell) = {i}
                  /\ mk.index[i] = mk.sell_date
                  /\ mk.sell[i] = mk.sell_price
          ELSE NonEmptyAt(mk.sell) = {}

\* The buy date is a trading day and got its marker; the sell date falls
\* between two trading days and got none.
C2_Witness ==
    /\ mk.phase = "out"
    /\ Cardinality(NonEmptyAt(mk.buy)) = 1
    /\ NonEmptyAt(mk.sell) = {}
    /\ \E i, j \in DOMAIN mk.index :
          mk.index[i] < mk.sell_date /\ mk.sell_date < mk.index[j]

(***************************************************************************)
(* TechnicalIndicator.calculate_ema                                        *)
(*                                                                         *)
(* data.ewm(span=s).mean() is the weighted mean                            *)
(*     y[t] = (SUM i \in 0..t : (1-a)^i * x[t-i]) / (SUM i \in 0..t : (1-a)^i)*)
(* with a = 2/(s+1), so 1-a = (s-1)/(s+1). Scaled by (s+1)^t both sums are *)
(* integers; a value is kept as a reduced fraction [num, den].             *)
(***************************************************************************)
MaxLen == 4
MaxSpan == 3
MaxClose == 3

RECURSIVE Pow(_, _)
Pow(b, e) == IF e = 0 THEN 1 ELSE b * Pow(b, e - 1)
RECURSIVE Gcd(_, _)
Gcd(a, b) == IF b = 0 THEN a ELSE Gcd(b, a % b)
Frac(n, d) == LET g == Gcd(n, d) IN [num |-> n \div g, den |-> d \div g]

\* Numerator and denominator of y[t], both scaled by (s+1)^(t-1); t is 1-based.
RECURSIVE EwmNum(_, _, _)
EwmNum(x, s, t) ==
    IF t = 1 THEN x[1]
    ELSE (s - 1) * EwmNum(x, s, t - 1) + Pow(s + 1, t - 1) * x[t]
RECURSIVE EwmDen(_, _)
EwmDen(s, t) ==
    IF t = 1 THEN 1
    ELSE (s - 1) * EwmDen(s, t - 1) + Pow(s + 1, t - 1)

\* A variant whose average starts from zero instead of the first observation.
EwmMeanZeroSeed(x, s) ==
    [t \in DOMAIN x |->
        Frac(EwmNum(x, s, t) - Pow(s - 1, t - 1) * x[1], EwmDen(s, t))]

\* data.ewm(span=s).mean()
EwmMean(x, s) ==
    [t \in DOMAIN x |-> Frac(EwmNum(x, s, t), EwmDen(s, t))]

\* ewm(span=s) raises ValueError unless s >= 1
SpanValid(s) == s >= 1

\* calculate_ema(data, periods): a failure of either ewm call is caught and
\* two empty series are returned.
CalculateEma(data, periods) ==
    IF SpanValid(periods[1]) /\ SpanValid(periods[2])
    THEN [short |-> EwmMean(data, periods[1]),
          long |-> EwmMean(data, periods[2]), error |-> FALSE]
    ELSE [short |-> <<>>, long |-> <<>>, error |-> TRUE]

CloseSeries == SeqsUpTo(1..MaxClose, MaxLen) \ {<<>>}

EmaInit ==
    /\ em \in [phase : {"in"}, data : CloseSeries,
               periods : (0..MaxSpan) \X (0..MaxSpan),
               short : {<<>>}, long : {<<>>}, error : {FALSE}]
    /\ mk = Idle /\ url = Idle /\ tr = Idle
    /\ ChartOff

EmaApply ==
    /\ em.phase = "in"
    /\ LET r == CalculateEma(em.data, em.periods)
       IN  em' = [em EXCEPT !.phase = "out", !.short = r.short,
                            !.long = r.long, !.error = r.error]
    /\ UNCHANGED <<chartVars, mk, url, tr>>

SpecEma == EmaInit /\ [][EmaApply]_vars

IsConstant(x) == \A i, j \in DOMAIN x : x[i] = x[j]

\* C8: for spans that are valid (at least 1) and a constant close series of
\* value c whose length is at least both spans, the short and the long EMA
\* series are aligned to the input and equal c at every position, the last
\* included.
C8_ConstantSeries ==
    (/\ em.phase = "out"
     /\ SpanValid(em.periods[1]) /\ SpanValid(em.periods[2])
     /\ IsConstant(em.data)
     /\ Len(em.data) >= em.periods[1] /\ Len(em.data) >= em.periods[2]) =>
       /\ ~em.error
       /\ DOMAIN em.short = DOMAIN em.data
       /\ DOMAIN em.long = DOMAIN em.data
       /\ \A t \in DOMAIN em.data :
             /\ em.short[t] = [num |-> em.data[1], den |-> 1]
             /\ em.long[t] = [num |-> em.data[1], den |-> 1]

\* A constant series of value 3 and of the length of the long span, with
\* two different spans, came out as the constant 3.
C8_Witness ==
    /\ em.phase = "out"
    /\ em.data = <<3, 3, 3>>
    /\ em.periods = <<2, 3>>
    /\ em.short[3] = [num |-> 3, den |-> 1]
    /\ em.long[3] = [num |-> 3, den |-> 1]

(***************************************************************************)
(* extract_video_id_urllib                                                 *)
(*                                                                         *)
(* A URL is a sequence of lexical atoms: a scheme with its colon, the      *)
(* delimiters "//", "/", "?", "#", "&", "=", a port with its colon, and    *)
(* words free of delimiters. urlparse and parse_qs split at delimiters     *)
(* only, so they act on the atoms as they act on the characters.           *)
(***************************************************************************)
MaxIdLen == 2

Schemes == {<<>>, <<"https:">>}
Slashes == {<<>>, <<"//">>}
Hosts == {"youtu.be", "YouTu.Be", "youtube.com", "www.youtube.com",
          "m.youtube.com", "example.com"}
Ports == {<<>>, <<":443">>}
IdWords == {"ABC123", "xyz"}
\* Identifiers: one word, or words joined by "/" up to MaxIdLen words
RECURSIVE SlashJoined(_)
SlashJoined(n) ==
    IF n = 1 THEN {<<w>> : w \in IdWords}
    ELSE SlashJoined(n - 1) \cup
         {p \o <<"/", w>> : p \in {q \in SlashJoined(n - 1) : Len(q) = 2 * n - 3},
                            w \in IdWords}
Paths == {<<>>, <<"/">>, <<"/", "watch">>} \cup {<<"/">> \o p : p \in SlashJoined(MaxIdLen)}
Queries ==
    {<<>>, <<"?">>, <<"?", "v">>, <<"?", "v", "=">>,
     <<"?", "v", "=", "ABC123">>,
     <<"?", "t", "=", "10", "&", "v", "=", "ABC123">>,
     <<"?", "v", "=", "&", "v", "=", "xyz">>,
     <<"?", "v", "=", "ABC123", "&", "v", "=", "xyz">>,
     <<"?", "vv", "=", "ABC123">>,
     <<"?", "v", "=", "a", "=", "b">>}
Fragments == {<<>>, <<"#", "v", "=", "xyz">>}

Lower(host) == IF host = "YouTu.Be" THEN "youtu.be" ELSE host

\* Index of the first atom of s that is in D, or Len(s) + 1
RECURSIVE FirstIn(_, _, _)
FirstIn(s, D, i) ==
    IF i > Len(s) THEN i
    ELSE IF s[i] \in D THEN i ELSE FirstIn(s, D, i + 1)
Before(s, D) == SubSeq(s, 1, FirstIn(s, D, 1) - 1)
From(s, D) == SubSeq(s, FirstIn(s, D, 1), Len(s))
Rest(s) == IF s = <<>> THEN <<>> ELSE Tail(s)

\* urllib.parse.urlparse: scheme, netloc, path, query, fragment
\* The text up to the first ":" is the scheme when it is a word of scheme
\* characters: "https:", and also a leading host name followed by a port.
UrlParse(u) ==
    LET hasScheme == u # <<>> /\ u[1] = "https:"
        hostAsScheme == Len(u) >= 2 /\ u[1] \in Hosts /\ u[2] = ":443"
        scheme == IF hasScheme THEN "https"
                  ELSE IF hostAsScheme THEN Lower(u[1]) ELSE ""
        a == IF hasScheme THEN Tail(u)
             ELSE IF hostAsScheme THEN <<"443">> \o SubSeq(u, 3, Len(u))
             ELSE u
        hasNetloc == a # <<>> /\ a[1] = "//"
        netloc == IF hasNetloc THEN Before(Tail(a), {"/", "?", "#"}) ELSE <<>>
        b == IF hasNetloc THEN From(Tail(a), {"/", "?", "#"}) ELSE a
        fragment == Rest(From(b, {"#"}))
        c == Before(b, {"#"})
        query == Rest(From(c, {"?"}))
        path == Before(c, {"?"})
    IN  [scheme |-> scheme, netloc |-> netloc, path |-> path, query |-> query,
         fragment |-> fragment,
         \* .hostname: the netloc without its port, in lower case; None if empty
         hostname |-> IF netloc = <<>> THEN None ELSE Lower(netloc[1])]

\* parse_qs(query).get(name, [None])[0]: the fields are split at "&", each at
\* its first "="; a field without "=" or with a blank value is dropped.
RECURSIVE FirstValue(_, _)
FirstValue(q, name) ==
    IF q = <<>> THEN [none |-> TRUE, id |-> <<>>]
    ELSE LET field == Before(q, {"&"})
             more == Rest(From(q, {"&"}))
             key == Before(field, {"="})
             hasEq == FirstIn(field, {"="}, 1) <= Len(field)
             value == Rest(From(field, {"="}))
         IN  IF hasEq /\ key = <<name>> /\ value # <<>>
             THEN [none |-> FALSE, id |-> value]
             ELSE FirstValue(more, name)

\* A variant of the short-domain branch that keeps the leading "/".
ShortIdWithSlash(path) == [none |-> FALSE, id |-> path]

\* parsed_url.path[1:]
ShortId(path) == [none |-> FALSE, id |-> Rest(path)]

ExtractVideoIdUrllib(u) ==
    LET parsed == UrlParse(u)
    IN  IF parsed.hostname \in {"www.youtube.com", "youtube.com", "youtu.be"}
        THEN IF parsed.hostname = "youtu.be"
             THEN ShortId(parsed.path)
             ELSE FirstValue(parsed.query, "v")
        ELSE [none |-> TRUE, id |-> <<>>]

NoId == [none |-> TRUE, id |-> <<>>]

UrlInit ==
    /\ \E sc \in Schemes, sl \in Slashes, h \in Hosts, po \in Ports,
          pa \in Paths, qu \in Queries, fr \in Fragments :
          url = [phase |-> "in",
                 scheme |-> sc, slashes |-> sl, host |-> h, path |-> pa,
                 query |-> qu,
                 text |-> sc \o sl \o <<h>> \o po \o pa \o qu \o fr,
                 id |-> NoId]
    /\ mk = Idle /\ em = Idle /\ tr = Idle
    /\ ChartOff

UrlApply ==
    /\ url.phase = "in"
    /\ url' = [url EXCEPT !.phase = "out", !.id = ExtractVideoIdUrllib(url.text)]
    /\ UNCHANGED <<chartVars, mk, em, tr>>

SpecUrl == UrlInit /\ [][UrlApply]_vars

\* The host urlparse sees: a host name is one only after "//".
UrlHost == IF url.slashes = <<"//">> THEN Lower(url.host) ELSE None
UrlQuery == Rest(url.query)
\* The fields of a query start after each "&"; a field names v with a value
\* when it reads v = and then something other than "&".
VFields ==
    {k \in DOMAIN UrlQuery :
        /\ k = 1 \/ UrlQuery[k - 1] = "&"
        /\ UrlQuery[k] = "v"
        /\ k + 2 <= Len(UrlQuery)
        /\ UrlQuery[k + 1] = "="
        /\ UrlQuery[k + 2] # "&"}
VValue(k) ==
    LET ends == {e \in (k + 2)..Len(UrlQuery) :
                    e = Len(UrlQuery) \/ UrlQuery[e + 1] = "&"}
        e == CHOOSE x \in ends : \A y \in ends : x <= y
    IN  SubSeq(UrlQuery, k + 2, e)

\* C3 (as claimed): for youtu.be the result is the path without its leading
\* "/"; for youtube.com and www.youtube.com it is the value of the first
\* query parameter v; an unrecognized host, a standard-domain URL without a v
\* parameter and a short-domain URL without a path all give None.
C3_VideoIdExtraction ==
    url.phase = "out" =>
       IF UrlHost = "youtu.be"
       THEN IF url.path = <<>>
            THEN url.id = NoId
            ELSE url.id = [none |-> FALSE, id |-> Tail(url.path)]
       ELSE IF UrlHost \in {"youtube.com", "www.youtube.com"}
            THEN IF VFields = {}
                 THEN url.id = NoId
                 ELSE url.id = [none |-> FALSE,
                                id |-> VValue(CHOOSE k \in VFields :
                                                \A j \in VFields : k <= j)]
            ELSE url.id = NoId

(***************************************************************************)
(* main() of the transcript fetcher                                        *)
(***************************************************************************)
MaxSnippets == 2
MaxTextLen == 2

LF == "\n"
Chars == {"a", "b", LF}
Texts == SeqsUpTo(Chars, MaxTextLen)
\* One timed caption: its text and its timing metadata.
Snippet(text, k) == [text |-> text, start |-> k, duration |-> 1]
Transcripts ==
    {[k \in DOMAIN ts |-> Snippet(ts[k], k)] : ts \in SeqsUpTo(Texts, MaxSnippets)}

\* video_link, as atoms
VideoLink ==
    <<"https:", "//", "www.youtube.com", "/", "watch", "?", "v", "=",
      "BIvuigQkelk">>

RECURSIVE Join(_)
Join(atoms) == IF atoms = <<>> THEN "" ELSE atoms[1] \o Join(Tail(atoms))
\* f"transcript_{video_id}.txt"
OutputFilename(id) ==
    "transcript_" \o (IF id.none THEN None ELSE Join(id.id)) \o ".txt"

\* A variant that writes the text without the line break.
WriteSnippetNoBreak(content, snippet) == content \o snippet.text

\* f.write(snippet.text + '\n')
WriteSnippet(content, snippet) == content \o snippet.text \o <<LF>>

\* A file left by an earlier run may be in the working directory.
OldFiles == {[exists |-> FALSE, content |-> <<>>],
             [exists |-> TRUE, content |-> <<"b", LF>>]}

TranscriptInit ==
    /\ \E old \in OldFiles :
          tr = [phase |-> "start", video_id |-> NoId, transcript |-> <<>>,
                output_filename |-> None, file |-> old, opened |-> FALSE,
                i |-> 0, reported |-> NaN]
    /\ mk = Idle /\ em = Idle /\ url = Idle
    /\ ChartOff

\* video_id = extract_video_id_urllib(video_link)
TrExtract ==
    /\ tr.phase = "start"
    /\ tr' = [tr EXCEPT !.phase = "fetch",
                        !.video_id = ExtractVideoIdUrllib(VideoLink)]
    /\ UNCHANGED <<chartVars, mk, em, url>>

\* transcript = ytt_api.fetch(video_id, languages=['ko']); a failure is not
\* caught and ends the process.
TrFetch ==
    /\ tr.phase = "fetch"
    /\ \/ \E t \in Transcripts :
             tr' = [tr EXCEPT !.phase = "open", !.transcript = t]
       \/ tr' = [tr EXCEPT !.phase = "crashed"]
    /\ UNCHANGED <<chartVars, mk, em, url>>

\* output_filename = ...; with open(output_filename, 'w', ...) as f:
TrOpen ==
    /\ tr.phase = "open"
    /\ tr' = [tr EXCEPT !.phase = "write",
                        !.output_filename = OutputFilename(tr.video_id),
                        !.file = [exists |-> TRUE, content |-> <<>>],
                        !.opened = TRUE,
                        !.i = 1]
    /\ UNCHANGED <<chartVars, mk, em, url>>

\* for snippet in transcript: f.write(snippet.text + '\n')
TrWrite ==
    /\ tr.phase = "write"
    /\ tr.i <= Len(tr.transcript)
    /\ tr' = [tr EXCEPT !.file.content = WriteSnippet(@, tr.transcript[tr.i]),
                        !.i = @ + 1]
    /\ UNCHANGED <<chartVars, mk, em, url>>

\* the two print calls after the with block
TrReport ==
    /\ tr.phase = "write"
    /\ tr.i > Len(tr.transcript)
    /\ tr' = [tr EXCEPT !.phase = "done", !.reported = Len(tr.transcript)]
    /\ UNCHANGED <<chartVars, mk, em, url>>

TranscriptNext == TrExtract \/ TrFetch \/ TrOpen \/ TrWrite \/ TrReport
SpecTranscript == TranscriptInit /\ [][TranscriptNext]_vars

\* The lines of a text file: the pieces its line breaks end.
RECURSIVE Lines(_)
Lines(content) ==
    IF content = <<>> THEN <<>>
    ELSE LET cut == FirstIn(content, {LF}, 1)
         IN  <<SubSeq(content, 1, cut - 1)>>
             \o Lines(SubSeq(content, cut + 1, Len(content)))

RECURSIVE Offset(_, _)
\* Where snippet i starts in the file: after the earlier texts and breaks.
Offset(t, i) == IF i = 1 THEN 0 ELSE Offset(t, i - 1) + Len(t[i - 1].text) + 1

\* C7 (as claimed): after the run, the file has exactly one line per snippet,
\* line i being the text of snippet i, and the reported count is the number
\* of snippets; the file is not opened before the fetch has returned.
C7_OneLinePerSnippet ==
    /\ tr.phase = "done" =>
       /\ Len(Lines(tr.file.content)) = Len(tr.transcript)
       /\ \A k \in DOMAIN tr.transcript :
             Lines(tr.file.content)[k] = tr.transcript[k].text
       /\ tr.reported = Len(tr.transcript)
    /\ tr.phase \in {"start", "fetch", "crashed"} => ~tr.opened

\* C7 (amended): after the run, the file transcript_{video_id}.txt holds, in
\* the transcript's order, each snippet's text followed by one line break,
\* and nothing else (no timing metadata, nothing of an earlier file); it has
\* exactly one line per snippet, line i being the text of snippet i, when no
\* snippet text contains a line break itself; the reported count is the
\* number of snippets; the file is opened only after the fetch has returned,
\* so a failed fetch leaves the directory as it was.
C7_TextThenBreakPerSnippet ==
    /\ tr.phase = "done" =>
          LET t == tr.transcript
              c == tr.file.content
              n == Len(t)
          IN  /\ tr.output_filename = "transcript_BIvuigQkelk.txt"
              /\ tr.file.exists
              /\ Len(c) = Offset(t, n + 1)
              /\ \A k \in 1..n :
                    /\ \A j \in 1..Len(t[k].text) :
                          c[Offset(t, k) + j] = t[k].text[j]
                    /\ c[Offset(t, k) + Len(t[k].text) + 1] = LF
              /\ (\A k \in 1..n : LF \notin Range(t[k].text)) =>
                    /\ Len(Lines(c)) = n
                    /\ \A k \in 1..n : Lines(c)[k] = t[k].text
              /\ tr.reported = n
    /\ tr.phase \in {"start", "fetch", "crashed"} =>
          /\ ~tr.opened
          /\ tr.file \in OldFiles

\* Two snippets without line breaks were written over an earlier file as
\* two lines, in order.
C7_Witness ==
    /\ tr.phase = "done"
    /\ Len(tr.transcript) = 2
    /\ tr.transcript[1].text = <<"a">>
    /\ tr.transcript[2].text = <<"b", "a">>
    /\ Lines(tr.file.content) = << <<"a">>, <<"b", "a">> >>
    /\ tr.reported = 2

====
